---- MODULE Spec2Model ----
(***************************************************************************)
(* A model of s3sync (src/s3sync.go): Manager.Sync, the remote lister, the *)
(* local lister, the diff filter and the fetch tasks of syncS3ToLocal.     *)
(*                                                                         *)
(* Strings (addresses, object keys, paths, error messages) are sequences   *)
(* of tokens, a token being a one-character string (an error message may   *)
(* start with a longer token naming the failed operation).  Go's library   *)
(* functions the program calls (url.Parse, strings.TrimPrefix,             *)
(* filepath.Clean/Join/Dir/Rel, strings.Join) are operators that compute   *)
(* what the library computes on Unix.                                      *)
(***************************************************************************)
EXTENDS Naturals, Sequences, FiniteSets, Bags, TLC

(***************************************************************************)
(* Bounds of the model.                                                    *)
(***************************************************************************)
\* objects in the bucket
MaxObjects == 2
\* objects one ListObjectsV2 page holds (S3 pages hold up to 1000 keys)
PageSize == 1
\* capacity of the remote lister's channel (50000 in the code, scaled down)
RemoteChanCap == 1
\* largest object or file size
MaxSize == 1
\* latest timestamp; 0 is Go's zero time.Time, which no file carries
MaxTime == 2
\* calls of Sync in one behaviour
MaxRuns == 2
\* failures of external calls injected in one behaviour
MaxFaults == 1
\* records in a channel handed to filterFilesForSync on its own
MaxFeed == 2

Sizes == 0..MaxSize
Times == 1..MaxTime
ZeroTime == 0

(***************************************************************************)
(* Strings.                                                                *)
(***************************************************************************)
Letters == {"a", "b", "c", "d", "e", "f", "l", "o", "p", "s", "z"}
Digits == {"0", "1", "2", "3", "4", "5", "6", "7", "8", "9"}
HexDigits == Digits \cup {"a", "b", "c", "d", "e", "f"}

\* byte order of the characters the model uses
Ord(c) ==
  CASE c = "%" -> 37
    [] c = "." -> 46
    [] c = "/" -> 47
    [] c = "3" -> 51
    [] c = ":" -> 58
    [] c = "a" -> 97
    [] c = "b" -> 98
    [] c = "d" -> 100
    [] c = "p" -> 112
    [] c = "s" -> 115
    [] c = "z" -> 122
    [] OTHER -> 0

\* s < t in byte order
RECURSIVE StrLess(_, _)
StrLess(s, t) ==
  IF t = <<>> THEN FALSE
  ELSE IF s = <<>> THEN TRUE
  ELSE IF Head(s) = Head(t) THEN StrLess(Tail(s), Tail(t))
  ELSE Ord(Head(s)) < Ord(Head(t))

\* strings.HasPrefix
HasPrefix(s, prefix) ==
  Len(prefix) <= Len(s) /\ SubSeq(s, 1, Len(prefix)) = prefix

\* strings.TrimPrefix
TrimPrefix(s, prefix) ==
  IF HasPrefix(s, prefix) THEN SubSeq(s, Len(prefix) + 1, Len(s)) ELSE s

\* first index of c in s, 0 when absent
IndexOf(s, c) ==
  IF \E i \in 1..Len(s) : s[i] = c
  THEN CHOOSE i \in 1..Len(s) : s[i] = c /\ \A j \in 1..(i - 1) : s[j] # c
  ELSE 0

\* last index of c in s, 0 when absent
LastIndexOf(s, c) ==
  IF \E i \in 1..Len(s) : s[i] = c
  THEN CHOOSE i \in 1..Len(s) : s[i] = c /\ \A j \in (i + 1)..Len(s) : s[j] # c
  ELSE 0

\* the parts of s between separators sep
RECURSIVE Split(_, _)
Split(s, sep) ==
  LET i == IndexOf(s, sep)
  IN  IF i = 0 THEN <<s>>
      ELSE <<SubSeq(s, 1, i - 1)>> \o Split(SubSeq(s, i + 1, Len(s)), sep)

\* strings.Join
RECURSIVE StringsJoin(_, _)
StringsJoin(elems, sep) ==
  IF elems = <<>> THEN <<>>
  ELSE IF Len(elems) = 1 THEN elems[1]
  ELSE elems[1] \o sep \o StringsJoin(Tail(elems), sep)

Slash == <<"/">>
Dot == <<".">>
DotDot == <<".", ".">>

(***************************************************************************)
(* path/filepath on Unix.                                                  *)
(***************************************************************************)
RECURSIVE CleanElems(_, _, _)
CleanElems(elems, out, rooted) ==
  IF elems = <<>> THEN out
  ELSE LET e == Head(elems)
           rest == Tail(elems)
       IN  IF e = <<>> \/ e = Dot THEN CleanElems(rest, out, rooted)
           ELSE IF e = DotDot
           THEN IF out # <<>> /\ out[Len(out)] # DotDot
                THEN CleanElems(rest, SubSeq(out, 1, Len(out) - 1), rooted)
                ELSE IF rooted THEN CleanElems(rest, out, rooted)
                ELSE CleanElems(rest, Append(out, e), rooted)
           ELSE CleanElems(rest, Append(out, e), rooted)

\* filepath.Clean
Clean(path) ==
  IF path = <<>> THEN Dot
  ELSE LET rooted == path[1] = "/"
           body == StringsJoin(CleanElems(Split(path, "/"), <<>>, rooted), Slash)
       IN  IF rooted THEN Slash \o body
           ELSE IF body = <<>> THEN Dot ELSE body

\* filepath.Join of two elements
Join(a, b) ==
  IF a = <<>> /\ b = <<>> THEN <<>>
  ELSE IF a = <<>> THEN Clean(b)
  ELSE IF b = <<>> THEN Clean(a)
  ELSE Clean(a \o Slash \o b)

\* filepath.Dir
Dir(path) == Clean(SubSeq(path, 1, LastIndexOf(path, "/")))

\* the elements filepath.Rel walks over in a cleaned path
RelElems(p) ==
  IF p = <<>> THEN <<>>
  ELSE IF p = Slash THEN << <<>> >>
  ELSE Split(p, "/")

\* number of leading elements two element lists share
RECURSIVE CommonLen(_, _)
CommonLen(b, t) ==
  IF b = <<>> \/ t = <<>> THEN 0
  ELSE IF Head(b) = Head(t) THEN 1 + CommonLen(Tail(b), Tail(t))
  ELSE 0

RECURSIVE Ups(_)
Ups(n) == IF n = 0 THEN <<>> ELSE <<DotDot>> \o Ups(n - 1)

\* filepath.Rel: [err, path]
Rel(basepath, targpath) ==
  LET base0 == Clean(basepath)
      targ == Clean(targpath)
      base == IF base0 = Dot THEN <<>> ELSE base0
      baseSlashed == base # <<>> /\ base[1] = "/"
      targSlashed == targ # <<>> /\ targ[1] = "/"
      b == RelElems(base)
      t == RelElems(targ)
      n == CommonLen(b, t)
      bLeft == SubSeq(b, n + 1, Len(b))
      tLeft == SubSeq(t, n + 1, Len(t))
  IN  IF targ = base0 THEN [err |-> FALSE, path |-> Dot]
      ELSE IF baseSlashed # targSlashed THEN [err |-> TRUE, path |-> <<>>]
      ELSE IF bLeft # <<>> /\ tLeft # <<>> /\ Head(bLeft) = DotDot
      THEN [err |-> TRUE, path |-> <<>>]
      ELSE [err |-> FALSE,
            path |-> StringsJoin(Ups(Len(bLeft)) \o tLeft, Slash)]

(***************************************************************************)
(* net/url.Parse on the addresses of the model: scheme, authority, path.   *)
(* None of them holds a query, a fragment, user info or a port.            *)
(***************************************************************************)
\* url.getScheme: [err, scheme, rest]
getScheme(rawurl) ==
  LET IsSchemeChar(c) == c \in Letters \cup Digits \cup {"+", "-", "."}
      stop == IF \E i \in 1..Len(rawurl) : ~IsSchemeChar(rawurl[i])
              THEN CHOOSE i \in 1..Len(rawurl) :
                     /\ ~IsSchemeChar(rawurl[i])
                     /\ \A j \in 1..(i - 1) : IsSchemeChar(rawurl[j])
              ELSE 0
      noScheme == [err |-> FALSE, scheme |-> <<>>, rest |-> rawurl]
  IN  IF rawurl = <<>> THEN noScheme
      ELSE IF rawurl[1] = ":" THEN [err |-> TRUE, scheme |-> <<>>, rest |-> <<>>]
      ELSE IF rawurl[1] \notin Letters THEN noScheme
      ELSE IF stop # 0 /\ rawurl[stop] = ":"
      THEN [err |-> FALSE, scheme |-> SubSeq(rawurl, 1, stop - 1),
            rest |-> SubSeq(rawurl, stop + 1, Len(rawurl))]
      ELSE noScheme

\* url.unescape fails on a % that two hex digits do not follow
BadEscape(s) ==
  \E i \in 1..Len(s) :
    /\ s[i] = "%"
    /\ \/ i + 2 > Len(s)
       \/ s[i + 1] \notin HexDigits
       \/ s[i + 2] \notin HexDigits

\* url.Parse: [err, Scheme, Host, Path]
urlParse(rawurl) ==
  LET failed == [err |-> TRUE, Scheme |-> <<>>, Host |-> <<>>, Path |-> <<>>]
      sch == getScheme(rawurl)
      rest == sch.rest
      colon == IndexOf(rest, ":")
      slash == IndexOf(rest, "/")
      hasAuthority ==
        /\ sch.scheme # <<>> \/ ~HasPrefix(rest, <<"/", "/", "/">>)
        /\ HasPrefix(rest, <<"/", "/">>)
      afterSlashes == SubSeq(rest, 3, Len(rest))
      hostEnd == IndexOf(afterSlashes, "/")
      host == IF ~hasAuthority THEN <<>>
              ELSE IF hostEnd = 0 THEN afterSlashes
              ELSE SubSeq(afterSlashes, 1, hostEnd - 1)
      path == IF ~hasAuthority THEN rest
              ELSE IF hostEnd = 0 THEN <<>>
              ELSE SubSeq(afterSlashes, hostEnd, Len(afterSlashes))
  IN  IF sch.err THEN failed
      ELSE IF ~HasPrefix(rest, Slash) /\ sch.scheme # <<>>
      THEN [err |-> FALSE, Scheme |-> sch.scheme, Host |-> <<>>, Path |-> <<>>]
      ELSE IF ~HasPrefix(rest, Slash) /\ colon # 0 /\ (slash = 0 \/ colon < slash)
      THEN failed
      ELSE IF BadEscape(host) \/ BadEscape(path) THEN failed
      ELSE [err |-> FALSE, Scheme |-> sch.scheme, Host |-> host, Path |-> path]

\* isS3URL
isS3URL(url) == url.Scheme = <<"s", "3">>

\* urlToS3Path: [err, bucket, bucketPrefix]
urlToS3Path(url) ==
  IF url.Host = <<>>
  THEN [err |-> TRUE, bucket |-> <<>>, bucketPrefix |-> <<>>]
  ELSE [err |-> FALSE, bucket |-> url.Host,
        bucketPrefix |-> TrimPrefix(url.Path, Slash)]

(***************************************************************************)
(* The inputs of Sync and the environment it runs in.                      *)
(***************************************************************************)
AddrS3P == <<"s", "3", ":", "/", "/", "b", "/", "p">>
AddrS3DotDot == <<"s", "3", ":", "/", "/", "b", "/", ".", ".">>
AddrS3NoBucket == <<"s", "3", ":", "/", "/", "/", "p">>
AddrLocal == <<"/", "d">>
AddrBadEscape == <<"%", "z", "z">>
Addrs == {AddrS3P, AddrS3DotDot, AddrS3NoBucket, AddrLocal, AddrBadEscape}

\* object keys: cleaned relative paths, two under prefix "p" and two that
\* start with "..", of which filepath.Rel cannot relativize "..."
KeysP == { <<"p", "/", "a">>, <<"p", "/", "b">> }
KeysDotDot == { <<".", ".", "/", "a">>, <<".", ".", ".">> }

\* the buckets of objects [key, size, lastModified] with the keys K
BucketsOf(K) ==
  { { [key |-> k, size |-> f[k][1], lastModified |-> f[k][2]] : k \in K }
    : f \in [K -> Sizes \X Times] }

\* a bucket: at most MaxObjects objects, their keys distinct and all of one
\* of the two groups
Buckets ==
  UNION { BucketsOf(K) :
          K \in { S \in SUBSET KeysP \cup SUBSET KeysDotDot :
                   Cardinality(S) <= MaxObjects } }

\* the local filesystem: a function from cleaned absolute paths to nodes; the
\* root directory "/" is there without an entry
DirNode == [kind |-> "dir", size |-> 0, mtime |-> ZeroTime]
FileNode(size, mtime) == [kind |-> "file", size |-> size, mtime |-> mtime]
FileNodes == { FileNode(sz, t) : sz \in Sizes, t \in Times }
EmptyFS == <<>>

\* names of the files a destination directory holds at the start
LocalNames == { <<"a">>, <<"b">> }

\* the filesystems a behaviour starts from: no destination, the destination a
\* regular file, or a directory of regular files
InitialFSs ==
  {EmptyFS}
  \cup { AddrLocal :> n : n \in FileNodes }
  \cup UNION { { (AddrLocal :> DirNode)
                 @@ [q \in { Join(AddrLocal, nm) : nm \in N } |-> g[q]]
                 : g \in [{ Join(AddrLocal, nm) : nm \in N } -> FileNodes] }
               : N \in SUBSET LocalNames }

IsDir(f, path) == path = Slash \/ (path \in DOMAIN f /\ f[path].kind = "dir")
IsFile(f, path) == path \in DOMAIN f /\ f[path].kind = "file"
Exists(f, path) == path = Slash \/ path \in DOMAIN f

\* a path and the directories above it, the root excluded
RECURSIVE Ancestors(_)
Ancestors(path) ==
  IF path = Slash \/ path = Dot THEN {} ELSE {path} \cup Ancestors(Dir(path))

\* the entries of directory dir, sorted by name as readDirNames sorts them
RECURSIVE SortPaths(_)
SortPaths(S) ==
  IF S = {} THEN <<>>
  ELSE LET m == CHOOSE y \in S : \A z \in S \ {y} : StrLess(y, z)
       IN  <<m>> \o SortPaths(S \ {m})
ReadDir(f, dir) == SortPaths({ q \in DOMAIN f : q # dir /\ Dir(q) = dir })

\* os.MkdirAll: [err, fs]
MkdirAll(f, path) ==
  IF \E q \in Ancestors(path) : IsFile(f, q)
  THEN [err |-> TRUE, fs |-> f]
  ELSE [err |-> FALSE,
        fs |-> [q \in DOMAIN f \cup Ancestors(path) |->
                  IF q \in DOMAIN f THEN f[q] ELSE DirNode]]

\* os.Create at time t: [err, fs]
Create(f, path, t) ==
  IF IsDir(f, path) \/ ~IsDir(f, Dir(path))
  THEN [err |-> TRUE, fs |-> f]
  ELSE [err |-> FALSE,
        fs |-> [q \in DOMAIN f \cup {path} |->
                  IF q = path THEN FileNode(0, t) ELSE f[q]]]

\* the open file at path holds size bytes, written at time t
WriteFile(f, path, size, t) ==
  [q \in DOMAIN f \cup {path} |-> IF q = path THEN FileNode(size, t) ELSE f[q]]

(***************************************************************************)
(* fileInfo records and error messages.                                    *)
(***************************************************************************)
NoErr == <<>>
FileInfo(name, path, size, lastModified) ==
  [err |-> NoErr, name |-> name, path |-> path, size |-> size,
   lastModified |-> lastModified]
\* what sendErrorInfoToChannel sends: every field but err has its zero value
ErrorInfo(err) ==
  [err |-> err, name |-> <<>>, path |-> <<>>, size |-> 0,
   lastModified |-> ZeroTime]

ErrMissingBucket == <<"s3 url is missing bucket name">>
ErrS3ToS3 == <<"S3 to S3 sync feature is not implemented">>
ErrLocalToS3 == <<"Local to S3 sync feature is not implemented">>
ErrLocalToLocal == <<"local to local sync is not supported">>
ErrParse(rawurl) == <<"parse ">> \o rawurl
ErrList == <<"ListObjectsV2 failed">>
ErrRel(key) == <<"Rel: can't make relative ">> \o key
ErrStat(path) == <<"stat ">> \o path
ErrWalk(path) == <<"lstat ">> \o path
ErrMkdir(path) == <<"mkdir ">> \o path
ErrCreate(path) == <<"open ">> \o path
ErrDownload(key) == <<"download ">> \o key
Newline == <<"\n">>

(***************************************************************************)
(* The state.                                                              *)
(***************************************************************************)
VARIABLES
  source, dest,      \* the arguments of Sync
  bucket,            \* the objects of the bucket
  fs,                \* the local filesystem
  now,               \* the local clock
  faults,            \* failures of external calls injected so far
  run,               \* the number of the current call of Sync
  mainPc,            \* where the caller of Sync is
  result,            \* what Sync returned: [isNil, msg]
  rPc, rToken, rPending, rNext, rChan,   \* the goroutine of listS3Files
  rSent,             \* the records it sent, in order
  rReqs,             \* the page requests it made, in order: [token, failed]
  lPc, lTodo, lErr,  \* the goroutine of listLocalFiles
  lSent,             \* the records it sent, in order
  destFiles,         \* the map fileInfoChanToMap builds
  fPc, fErr, fRec,   \* the goroutine of filterFilesForSync
  judged,            \* the remote records it received, in order
  tasks,             \* the goroutines syncS3ToLocal starts, in dispatch order
  errMsgs, mutex, wg,
  \* history of the current call
  forwarded,         \* the records the filter sent, in order
  ioLog,             \* the external calls made: [op, arg]
  fs0,               \* the filesystem when the call began
  appendOrder,       \* the tasks that appended to errMsgs, in order
  \* history of the calls before
  prevNil,           \* the previous call returned nil
  prevFetched,       \* the previous call downloaded an object
  prevFailed,        \* names of the files of which the previous call's fetch failed
  lagged             \* a download stamped a file earlier than the object's lastModified

vars == <<source, dest, bucket, fs, now, faults, run, mainPc, result,
          rPc, rToken, rPending, rNext, rChan, rSent, rReqs,
          lPc, lTodo, lErr, lSent,
          destFiles, fPc, fErr, fRec, judged, tasks, errMsgs, mutex, wg,
          forwarded, ioLog, fs0, appendOrder, prevNil, prevFetched,
          prevFailed, lagged>>

inputVars == <<source, dest, bucket>>
remoteVars == <<rPc, rToken, rPending, rNext, rChan, rSent, rReqs>>
localVars == <<lPc, lTodo, lErr, lSent>>
filterVars == <<fPc, fErr, fRec, judged>>
taskVars == <<tasks, errMsgs, mutex, wg, appendOrder>>
histVars == <<fs0, prevNil, prevFetched, prevFailed>>

NoResult == [isNil |-> TRUE, msg |-> <<>>]
Nil == [isNil |-> TRUE, msg |-> <<>>]
Error(msg) == [isNil |-> FALSE, msg |-> msg]

CanFail == faults < MaxFaults

\* the locals of syncS3ToLocal
sourcePath == urlToS3Path(urlParse(source))
destPath == dest

(***************************************************************************)
(* Manager.Sync                                                            *)
(***************************************************************************)
\* a Sync that does not tell a bucket from a local path at the destination
SyncDispatchAnyDest(src, dst) ==
  LET sourceURL == urlParse(src)
      destURL == urlParse(dst)
      fail(msg) == [kind |-> "error", err |-> msg]
  IN  IF sourceURL.err THEN fail(ErrParse(src))
      ELSE IF destURL.err THEN fail(ErrParse(dst))
      ELSE IF isS3URL(sourceURL)
      THEN IF urlToS3Path(sourceURL).err THEN fail(ErrMissingBucket)
           ELSE [kind |-> "s3ToLocal", err |-> NoErr]
      ELSE IF isS3URL(destURL)
      THEN IF urlToS3Path(destURL).err THEN fail(ErrMissingBucket)
           ELSE fail(ErrLocalToS3)
      ELSE fail(ErrLocalToLocal)

\* a Sync that does not look at the error of parsing the destination
SyncDispatchUnparsedDest(src, dst) ==
  LET sourceURL == urlParse(src)
      destURL == urlParse(dst)
      fail(msg) == [kind |-> "error", err |-> msg]
  IN  IF sourceURL.err THEN fail(ErrParse(src))
      ELSE IF isS3URL(sourceURL)
      THEN IF urlToS3Path(sourceURL).err THEN fail(ErrMissingBucket)
           ELSE IF isS3URL(destURL)
           THEN IF urlToS3Path(destURL).err THEN fail(ErrMissingBucket)
                ELSE fail(ErrS3ToS3)
           ELSE [kind |-> "s3ToLocal", err |-> NoErr]
      ELSE IF isS3URL(destURL)
      THEN IF urlToS3Path(destURL).err THEN fail(ErrMissingBucket)
           ELSE fail(ErrLocalToS3)
      ELSE fail(ErrLocalToLocal)

\* what Sync does with its arguments: return an error, or run syncS3ToLocal
SyncDispatch(src, dst) ==
  LET sourceURL == urlParse(src)
      destURL == urlParse(dst)
      fail(msg) == [kind |-> "error", err |-> msg]
  IN  IF sourceURL.err THEN fail(ErrParse(src))
      ELSE IF destURL.err THEN fail(ErrParse(dst))
      ELSE IF isS3URL(sourceURL)
      THEN IF urlToS3Path(sourceURL).err THEN fail(ErrMissingBucket)
           ELSE IF isS3URL(destURL)
           THEN IF urlToS3Path(destURL).err THEN fail(ErrMissingBucket)
                ELSE fail(ErrS3ToS3)
           ELSE [kind |-> "s3ToLocal", err |-> NoErr]
      ELSE IF isS3URL(destURL)
      THEN IF urlToS3Path(destURL).err THEN fail(ErrMissingBucket)
           ELSE fail(ErrLocalToS3)
      ELSE fail(ErrLocalToLocal)

\* Sync is called: it returns an error at once, or syncS3ToLocal starts the two
\* listers and fileInfoChanToMap begins to drain the local one
SyncCall ==
  /\ mainPc = "call"
  /\ LET d == SyncDispatch(source, dest)
     IN  IF d.kind = "error"
         THEN /\ mainPc' = "returned"
              /\ result' = Error(d.err)
              /\ UNCHANGED <<rPc, lPc>>
         ELSE /\ mainPc' = "drain"
              /\ rPc' = "request"
              /\ lPc' = "stat"
              /\ UNCHANGED result
  /\ UNCHANGED <<inputVars, fs, now, faults, run, rToken, rPending, rNext,
                 rSent, rReqs,
                 rChan, lTodo, lErr, lSent, destFiles, filterVars, taskVars,
                 forwarded, ioLog, histVars, lagged>>

(***************************************************************************)
(* Manager.listS3Files and Manager.listS3FileWithToken                     *)
(***************************************************************************)
\* the objects ListObjectsV2 lists under prefix, in key order
Listing(prefix) ==
  LET objs == { o \in bucket : HasPrefix(o.key, prefix) }
      keys == SortPaths({ o.key : o \in objs })
  IN  [i \in 1..Len(keys) |-> CHOOSE o \in objs : o.key = keys[i]]

Min(a, b) == IF a < b THEN a ELSE b

\* one page: the objects after token, and the next token (0: none)
ListObjectsV2(prefix, token) ==
  LET all == Listing(prefix)
  IN  [Contents |-> SubSeq(all, token + 1, Min(token + PageSize, Len(all))),
       NextContinuationToken |->
         IF token + PageSize < Len(all) THEN token + PageSize ELSE 0]

\* the record listS3FileWithToken sends for an object
RemoteInfo(prefix, object) ==
  LET rel == Rel(prefix, object.key)
  IN  IF rel.err THEN ErrorInfo(ErrRel(object.key))
      ELSE FileInfo(rel.path, object.key, object.size, object.lastModified)

\* a lister that stops after its first page
RemoteAfterPageOnce(next) ==
  rPc' = "closed" /\ UNCHANGED rToken

\* where the lister goes once a page's records are sent
RemoteAfterPage(next) ==
  IF next = 0
  THEN rPc' = "closed" /\ UNCHANGED rToken
  ELSE rPc' = "request" /\ rToken' = next

\* a lister that ends its loop on a failed page request without a record
RemoteRequestFailSilent ==
  /\ rPc = "request"
  /\ CanFail
  /\ faults' = faults + 1
  /\ ioLog' = ioLog \cup {[op |-> "listfail", arg |-> sourcePath.bucketPrefix]}
  /\ rPending' = <<>>
  /\ rNext' = 0
  /\ rPc' = "closed"
  /\ rReqs' = Append(rReqs, [token |-> rToken, failed |-> TRUE])
  /\ UNCHANGED <<inputVars, fs, now, run, mainPc, result, rToken, rChan, rSent,
                 localVars, destFiles, filterVars, taskVars, forwarded,
                 histVars, lagged>>

\* a page request fails: one error record is to be sent, then the loop ends
RemoteRequestFail ==
  /\ rPc = "request"
  /\ CanFail
  /\ faults' = faults + 1
  /\ ioLog' = ioLog \cup {[op |-> "listfail", arg |-> sourcePath.bucketPrefix]}
  /\ rPending' = <<ErrorInfo(ErrList)>>
  /\ rNext' = 0
  /\ rPc' = "send"
  /\ rReqs' = Append(rReqs, [token |-> rToken, failed |-> TRUE])
  /\ UNCHANGED <<inputVars, fs, now, run, mainPc, result, rToken, rChan, rSent,
                 localVars, destFiles, filterVars, taskVars, forwarded,
                 histVars, lagged>>

\* a page request succeeds
RemoteRequest ==
  /\ rPc = "request"
  /\ LET list == ListObjectsV2(sourcePath.bucketPrefix, rToken)
         records == [i \in 1..Len(list.Contents) |->
                       RemoteInfo(sourcePath.bucketPrefix, list.Contents[i])]
     IN  /\ rPending' = records
         /\ rNext' = list.NextContinuationToken
         /\ IF records = <<>>
            THEN RemoteAfterPage(list.NextContinuationToken)
            ELSE rPc' = "send" /\ UNCHANGED rToken
  /\ ioLog' = ioLog \cup {[op |-> "list", arg |-> sourcePath.bucketPrefix]}
  /\ rReqs' = Append(rReqs, [token |-> rToken, failed |-> FALSE])
  /\ UNCHANGED <<inputVars, fs, now, faults, run, mainPc, result, rChan, rSent,
                 localVars, destFiles, filterVars, taskVars, forwarded,
                 histVars, lagged>>

\* a lister that drops a record when the channel is full
RemoteSendOrDrop ==
  /\ rPc = "send"
  /\ IF Len(rChan) < RemoteChanCap
     THEN rChan' = Append(rChan, Head(rPending))
     ELSE UNCHANGED rChan
  /\ rSent' = Append(rSent, Head(rPending))
  /\ rPending' = Tail(rPending)
  /\ IF Tail(rPending) = <<>>
     THEN RemoteAfterPage(rNext)
     ELSE UNCHANGED <<rPc, rToken>>
  /\ UNCHANGED <<inputVars, fs, now, faults, run, mainPc, result, rNext, rReqs,
                 localVars, destFiles, filterVars, taskVars, forwarded, ioLog,
                 histVars, lagged>>

\* c <- record: blocks while the channel is full
RemoteSend ==
  /\ rPc = "send"
  /\ Len(rChan) < RemoteChanCap
  /\ rChan' = Append(rChan, Head(rPending))
  /\ rSent' = Append(rSent, Head(rPending))
  /\ rPending' = Tail(rPending)
  /\ IF Tail(rPending) = <<>>
     THEN RemoteAfterPage(rNext)
     ELSE UNCHANGED <<rPc, rToken>>
  /\ UNCHANGED <<inputVars, fs, now, faults, run, mainPc, result, rNext, rReqs,
                 localVars, destFiles, filterVars, taskVars, forwarded, ioLog,
                 histVars, lagged>>

(***************************************************************************)
(* fileInfoChanToMap, run by the caller inside filterFilesForSync          *)
(***************************************************************************)
\* result[file.name] = file
MapPut(m, file) ==
  [n \in DOMAIN m \cup {file.name} |-> IF n = file.name THEN file ELSE m[n]]

\* fileInfoChanToMap on a channel that delivers files and is then closed:
\* [err, map, read], read being the records received
RECURSIVE fileInfoChanToMap(_, _, _)
fileInfoChanToMap(files, m, read) ==
  IF files = <<>> THEN [err |-> NoErr, map |-> m, read |-> read]
  ELSE IF Head(files).err # NoErr
  THEN [err |-> Head(files).err, map |-> <<>>,
        read |-> Append(read, Head(files))]
  ELSE fileInfoChanToMap(Tail(files), MapPut(m, Head(files)),
                         Append(read, Head(files)))

(***************************************************************************)
(* listLocalFiles and sendFileInfoToChannel.  The channel is unbuffered: a *)
(* send is one step with the receive of fileInfoChanToMap; so is the close *)
(* of the channel with the return of fileInfoChanToMap, after which        *)
(* filterFilesForSync starts its goroutine and the range loop of           *)
(* syncS3ToLocal waits for its first record.                               *)
(***************************************************************************)
\* the lister returns and its deferred close(c) runs: fileInfoChanToMap
\* returns the map
LocalClose ==
  /\ lPc' = "closed"
  /\ mainPc' = "range"
  /\ fPc' = "recv"

\* the record sendFileInfoToChannel sends for the file at path; the error of
\* filepath.Rel is dropped, its path is then empty
LocalInfo(basePath, path) ==
  FileInfo(Rel(basePath, path).path, path, fs[Clean(path)].size,
           fs[Clean(path)].mtime)

\* os.Stat(basePath) fails, but not with "does not exist"
LocalStatFail ==
  /\ lPc = "stat"
  /\ CanFail
  /\ faults' = faults + 1
  /\ ioLog' = ioLog \cup {[op |-> "statfail", arg |-> destPath]}
  /\ lErr' = ErrStat(destPath)
  /\ lPc' = "senderr"
  /\ UNCHANGED <<inputVars, fs, now, run, mainPc, result, remoteVars, lTodo,
                 lSent, destFiles, filterVars, taskVars, forwarded, histVars, lagged>>

\* a lister for which a path that does not exist is an error
LocalStatStrict ==
  /\ lPc = "stat"
  /\ ioLog' = ioLog \cup {[op |-> "stat", arg |-> destPath]}
  /\ IF ~Exists(fs, Clean(destPath))
     THEN /\ lPc' = "senderr"
          /\ lErr' = ErrStat(destPath)
          /\ UNCHANGED <<lTodo, mainPc, fPc>>
     ELSE /\ UNCHANGED lErr
          /\ IF IsDir(fs, Clean(destPath))
             THEN lPc' = "walk" /\ lTodo' = <<destPath>>
                  /\ UNCHANGED <<mainPc, fPc>>
             ELSE lPc' = "root" /\ UNCHANGED <<lTodo, mainPc, fPc>>
  /\ UNCHANGED <<inputVars, fs, now, faults, run, result, remoteVars,
                 lSent, destFiles, fErr, fRec, judged, taskVars,
                 forwarded, histVars, lagged>>

\* os.Stat(basePath): no such path, a regular file, or a directory to walk
LocalStat ==
  /\ lPc = "stat"
  /\ ioLog' = ioLog \cup {[op |-> "stat", arg |-> destPath]}
  /\ IF ~Exists(fs, Clean(destPath))
     THEN LocalClose /\ UNCHANGED lTodo
     ELSE IF IsDir(fs, Clean(destPath))
     THEN lPc' = "walk" /\ lTodo' = <<destPath>> /\ UNCHANGED <<mainPc, fPc>>
     ELSE lPc' = "root" /\ UNCHANGED <<lTodo, mainPc, fPc>>
  /\ UNCHANGED <<inputVars, fs, now, faults, run, result, remoteVars,
                 lErr, lSent, destFiles, fErr, fRec, judged, taskVars,
                 forwarded, histVars, lagged>>

\* the root is a regular file: its record is sent, and the lister returns
LocalSendRoot ==
  /\ lPc = "root"
  /\ mainPc = "drain"
  /\ destFiles' = MapPut(destFiles, LocalInfo(destPath, destPath))
  /\ lSent' = Append(lSent, LocalInfo(destPath, destPath))
  /\ LocalClose
  /\ UNCHANGED <<inputVars, fs, now, faults, run, result, remoteVars,
                 lTodo, lErr, fErr, fRec, judged, taskVars, forwarded, ioLog,
                 histVars, lagged>>

\* filepath.Walk cannot lstat or read the next path: walkFn returns the error
LocalWalkFail ==
  /\ lPc = "walk"
  /\ CanFail
  /\ faults' = faults + 1
  /\ ioLog' = ioLog \cup {[op |-> "walk", arg |-> Head(lTodo)]}
  /\ lErr' = ErrWalk(Head(lTodo))
  /\ lPc' = "senderr"
  /\ UNCHANGED <<inputVars, fs, now, run, mainPc, result, remoteVars, lTodo,
                 lSent, destFiles, filterVars, taskVars, forwarded, histVars, lagged>>

\* a lister that sends a record for a directory as well
LocalWalkStepAll ==
  /\ lPc = "walk"
  /\ mainPc = "drain"
  /\ LET path == Head(lTodo)
         todo == IF IsDir(fs, Clean(path))
                 THEN ReadDir(fs, Clean(path)) \o Tail(lTodo)
                 ELSE Tail(lTodo)
     IN  /\ destFiles' = MapPut(destFiles, LocalInfo(destPath, path))
         /\ lSent' = Append(lSent, LocalInfo(destPath, path))
         /\ lTodo' = todo
         /\ IF todo = <<>> THEN LocalClose ELSE UNCHANGED <<lPc, mainPc, fPc>>
         /\ ioLog' = ioLog \cup {[op |-> "walk", arg |-> path]}
  /\ UNCHANGED <<inputVars, fs, now, faults, run, result, remoteVars,
                 lErr, fErr, fRec, judged, taskVars, forwarded, histVars,
                 lagged>>

\* filepath.Walk visits the next path: the entries of a directory are to be
\* visited next, in name order; the record of a file is sent
LocalWalkStep ==
  /\ lPc = "walk"
  /\ LET path == Head(lTodo)
         todo == IF IsDir(fs, Clean(path))
                 THEN ReadDir(fs, Clean(path)) \o Tail(lTodo)
                 ELSE Tail(lTodo)
     IN  /\ IF IsDir(fs, Clean(path))
            THEN UNCHANGED <<destFiles, lSent>>
            ELSE /\ mainPc = "drain"
                 /\ destFiles' = MapPut(destFiles, LocalInfo(destPath, path))
                 /\ lSent' = Append(lSent, LocalInfo(destPath, path))
         /\ lTodo' = todo
         /\ IF todo = <<>> THEN LocalClose ELSE UNCHANGED <<lPc, mainPc, fPc>>
         /\ ioLog' = ioLog \cup {[op |-> "walk", arg |-> path]}
  /\ UNCHANGED <<inputVars, fs, now, faults, run, result, remoteVars,
                 lErr, fErr, fRec, judged, taskVars, forwarded, histVars,
                 lagged>>

\* sendErrorInfoToChannel: fileInfoChanToMap returns the error, and
\* filterFilesForSync starts its goroutine with it
LocalSendErr ==
  /\ lPc = "senderr"
  /\ mainPc = "drain"
  /\ lPc' = "closed"
  /\ mainPc' = "range"
  /\ fPc' = "abort"
  /\ fErr' = lErr
  /\ lSent' = Append(lSent, ErrorInfo(lErr))
  /\ UNCHANGED <<inputVars, fs, now, faults, run, result, remoteVars, lTodo,
                 lErr, destFiles, fRec, judged, taskVars, forwarded, ioLog,
                 histVars, lagged>>

(***************************************************************************)
(* filterFilesForSync.  Its output channel is unbuffered: a send is one    *)
(* step with the receive of the range loop of syncS3ToLocal, which adds    *)
(* one to the wait group and starts a goroutine for the record; the close  *)
(* of the channel is one step with the end of the range loop, after which  *)
(* syncS3ToLocal is in wg.Wait().                                          *)
(***************************************************************************)
\* a filter that does not compare sizes
NeedsSyncBySizeBlind(sourceInfo, destMap) ==
  IF sourceInfo.name \notin DOMAIN destMap THEN TRUE
  ELSE sourceInfo.lastModified > destMap[sourceInfo.name].lastModified

\* a filter that also sends on a record as old as the local one
NeedsSyncNotBefore(sourceInfo, destMap) ==
  IF sourceInfo.name \notin DOMAIN destMap THEN TRUE
  ELSE \/ sourceInfo.size # destMap[sourceInfo.name].size
       \/ sourceInfo.lastModified >= destMap[sourceInfo.name].lastModified

\* the condition under which the filter sends sourceInfo on
NeedsSync(sourceInfo, destMap) ==
  IF sourceInfo.name \notin DOMAIN destMap THEN TRUE
  ELSE \/ sourceInfo.size # destMap[sourceInfo.name].size
       \/ sourceInfo.lastModified > destMap[sourceInfo.name].lastModified

NewTask(rec) == [rec |-> rec, pc |-> "start", msg |-> NoErr, seen |-> <<>>]

\* the range loop receives rec: wg.Add(1) and go func(source)
Dispatch(rec) ==
  /\ tasks' = Append(tasks, NewTask(rec))
  /\ wg' = wg + 1
  /\ forwarded' = Append(forwarded, rec)

\* a filter that sends the error of the local lister and goes on to judge
FilterAbortThenJudge ==
  /\ fPc = "abort"
  /\ mainPc = "range"
  /\ Dispatch(ErrorInfo(fErr))
  /\ fPc' = "recv"
  /\ UNCHANGED <<inputVars, fs, now, faults, run, mainPc, result, remoteVars,
                 localVars, destFiles, fErr, fRec, judged, errMsgs, mutex,
                 appendOrder, ioLog, histVars, lagged>>

\* the local lister failed: the filter sends its error and returns
FilterAbort ==
  /\ fPc = "abort"
  /\ mainPc = "range"
  /\ Dispatch(ErrorInfo(fErr))
  /\ fPc' = "closed"
  /\ mainPc' = "wait"
  /\ UNCHANGED <<inputVars, fs, now, faults, run, result, remoteVars,
                 localVars, destFiles, fErr, fRec, judged, errMsgs, mutex,
                 appendOrder, ioLog, histVars, lagged>>

\* the filter receives the next remote record and decides
FilterRecv ==
  /\ fPc = "recv"
  /\ rChan # <<>>
  /\ rChan' = Tail(rChan)
  /\ judged' = Append(judged, Head(rChan))
  /\ IF NeedsSync(Head(rChan), destFiles)
     THEN fPc' = "send" /\ fRec' = Head(rChan)
     ELSE UNCHANGED <<fPc, fRec>>
  /\ UNCHANGED <<inputVars, fs, now, faults, run, mainPc, result, rPc, rToken,
                 rPending, rNext, rSent, rReqs, localVars, destFiles, fErr, taskVars,
                 forwarded, ioLog, histVars, lagged>>

\* c <- sourceInfo
FilterSend ==
  /\ fPc = "send"
  /\ mainPc = "range"
  /\ Dispatch(fRec)
  /\ fPc' = "recv"
  /\ UNCHANGED <<inputVars, fs, now, faults, run, mainPc, result, remoteVars,
                 localVars, destFiles, fErr, fRec, judged, errMsgs, mutex,
                 appendOrder, ioLog, histVars, lagged>>

\* the remote channel is closed and empty: the filter closes its own
FilterClose ==
  /\ fPc = "recv"
  /\ rChan = <<>>
  /\ rPc = "closed"
  /\ fPc' = "closed"
  /\ mainPc' = "wait"
  /\ UNCHANGED <<inputVars, fs, now, faults, run, result, remoteVars,
                 localVars, destFiles, fErr, fRec, judged, taskVars, forwarded,
                 ioLog, histVars, lagged>>

(***************************************************************************)
(* The goroutine syncS3ToLocal starts for a record, and Manager.download   *)
(***************************************************************************)
targetFilename(rec) == Join(destPath, rec.name)
targetDir(rec) == Dir(targetFilename(rec))
objectKey(rec) == Join(sourcePath.bucketPrefix, rec.name)

SetTask(t, pc, msg) == tasks' = [tasks EXCEPT ![t].pc = pc, ![t].msg = msg]
TaskFail(t, msg) == SetTask(t, "lock", msg)
LogIO(op, arg) == ioLog' = ioLog \cup {[op |-> op, arg |-> arg]}

\* the local times a write may carry: the clock never runs backwards
Later == { t \in Times : t >= now }

\* a goroutine that downloads whatever record it is given
TaskStartAnyRecord(t) ==
  /\ tasks[t].pc = "start"
  /\ LET made == MkdirAll(fs, targetDir(tasks[t].rec))
     IN  /\ LogIO("mkdir", targetDir(tasks[t].rec))
         /\ fs' = made.fs
         /\ IF made.err
            THEN TaskFail(t, ErrMkdir(targetDir(tasks[t].rec)))
            ELSE SetTask(t, "create", NoErr)
  /\ UNCHANGED <<inputVars, now, faults, run, mainPc, result, remoteVars,
                 localVars, destFiles, filterVars, errMsgs, mutex, wg,
                 appendOrder, forwarded, histVars, lagged>>

\* a goroutine that does nothing once the error list holds a message
TaskStartUnlessFailed(t) ==
  /\ tasks[t].pc = "start"
  /\ IF errMsgs # <<>>
     THEN /\ SetTask(t, "done", NoErr)
          /\ wg' = wg - 1
          /\ UNCHANGED <<fs, ioLog>>
     ELSE /\ UNCHANGED wg
          /\ IF tasks[t].rec.err # NoErr
             THEN /\ TaskFail(t, tasks[t].rec.err)
                  /\ UNCHANGED <<fs, ioLog>>
             ELSE LET made == MkdirAll(fs, targetDir(tasks[t].rec))
                  IN  /\ LogIO("mkdir", targetDir(tasks[t].rec))
                      /\ fs' = made.fs
                      /\ IF made.err
                         THEN TaskFail(t, ErrMkdir(targetDir(tasks[t].rec)))
                         ELSE SetTask(t, "create", NoErr)
  /\ UNCHANGED <<inputVars, now, faults, run, mainPc, result, remoteVars,
                 localVars, destFiles, filterVars, errMsgs, mutex,
                 appendOrder, forwarded, histVars, lagged>>

\* the goroutine starts: an error record goes to the error list; for a file,
\* download makes the directories of the target
TaskStart(t) ==
  /\ tasks[t].pc = "start"
  /\ IF tasks[t].rec.err # NoErr
     THEN /\ TaskFail(t, tasks[t].rec.err)
          /\ UNCHANGED <<fs, ioLog>>
     ELSE LET made == MkdirAll(fs, targetDir(tasks[t].rec))
          IN  /\ LogIO("mkdir", targetDir(tasks[t].rec))
              /\ fs' = made.fs
              /\ IF made.err
                 THEN TaskFail(t, ErrMkdir(targetDir(tasks[t].rec)))
                 ELSE SetTask(t, "create", NoErr)
  /\ UNCHANGED <<inputVars, now, faults, run, mainPc, result, remoteVars,
                 localVars, destFiles, filterVars, errMsgs, mutex, wg,
                 appendOrder, forwarded, histVars, lagged>>

\* os.MkdirAll fails for a reason of its own (permissions, a full disk)
TaskMkdirFail(t) ==
  /\ tasks[t].pc = "start"
  /\ tasks[t].rec.err = NoErr
  /\ CanFail
  /\ faults' = faults + 1
  /\ LogIO("mkdir", targetDir(tasks[t].rec))
  /\ TaskFail(t, ErrMkdir(targetDir(tasks[t].rec)))
  /\ UNCHANGED <<inputVars, fs, now, run, mainPc, result, remoteVars,
                 localVars, destFiles, filterVars, errMsgs, mutex, wg,
                 appendOrder, forwarded, histVars, lagged>>

\* os.Create(targetFilename): the file is there and empty
TaskCreate(t) ==
  /\ tasks[t].pc = "create"
  /\ \E time \in Later :
       LET made == Create(fs, targetFilename(tasks[t].rec), time)
       IN  /\ fs' = made.fs
           /\ IF made.err
              THEN /\ TaskFail(t, ErrCreate(targetFilename(tasks[t].rec)))
                   /\ UNCHANGED now
              ELSE /\ SetTask(t, "transfer", NoErr)
                   /\ now' = time
  /\ LogIO("create", targetFilename(tasks[t].rec))
  /\ UNCHANGED <<inputVars, faults, run, mainPc, result, remoteVars,
                 localVars, destFiles, filterVars, errMsgs, mutex, wg,
                 appendOrder, forwarded, histVars, lagged>>

\* os.Create fails for a reason of its own
TaskCreateFail(t) ==
  /\ tasks[t].pc = "create"
  /\ CanFail
  /\ faults' = faults + 1
  /\ LogIO("create", targetFilename(tasks[t].rec))
  /\ TaskFail(t, ErrCreate(targetFilename(tasks[t].rec)))
  /\ UNCHANGED <<inputVars, fs, now, run, mainPc, result, remoteVars,
                 localVars, destFiles, filterVars, errMsgs, mutex, wg,
                 appendOrder, forwarded, histVars, lagged>>

\* Downloader.Download: GetObject fails when the bucket holds no object of the
\* key; else the whole object is written, and the deferred wg.Done follows
TaskTransfer(t) ==
  /\ tasks[t].pc = "transfer"
  /\ LogIO("download", objectKey(tasks[t].rec))
  /\ IF \A o \in bucket : o.key # objectKey(tasks[t].rec)
     THEN /\ TaskFail(t, ErrDownload(objectKey(tasks[t].rec)))
          /\ UNCHANGED <<fs, now, wg, lagged>>
     ELSE \E o \in bucket :
            /\ o.key = objectKey(tasks[t].rec)
            /\ \E time \in Later :
                 /\ fs' = WriteFile(fs, targetFilename(tasks[t].rec), o.size,
                                    time)
                 /\ now' = time
                 /\ lagged' = (lagged \/ time < o.lastModified)
            /\ SetTask(t, "done", NoErr)
            /\ wg' = wg - 1
  /\ UNCHANGED <<inputVars, faults, run, mainPc, result, remoteVars,
                 localVars, destFiles, filterVars, errMsgs, mutex,
                 appendOrder, forwarded, histVars>>

\* the transfer fails after written bytes reached the file
TaskTransferFail(t) ==
  /\ tasks[t].pc = "transfer"
  /\ CanFail
  /\ faults' = faults + 1
  /\ \E o \in bucket :
       /\ o.key = objectKey(tasks[t].rec)
       /\ \E written \in 0..o.size :
            IF written = 0
            THEN UNCHANGED <<fs, now>>
            ELSE \E time \in Later :
                   /\ fs' = WriteFile(fs, targetFilename(tasks[t].rec),
                                      written, time)
                   /\ now' = time
  /\ LogIO("download", objectKey(tasks[t].rec))
  /\ TaskFail(t, ErrDownload(objectKey(tasks[t].rec)))
  /\ UNCHANGED <<inputVars, run, mainPc, result, remoteVars, localVars,
                 destFiles, filterVars, errMsgs, mutex, wg, appendOrder,
                 forwarded, histVars, lagged>>

\* a goroutine that reads the list without the lock
TaskLockUnguarded(t) ==
  /\ tasks[t].pc = "lock"
  /\ mutex' = t
  /\ tasks' = [tasks EXCEPT ![t].pc = "append", ![t].seen = errMsgs]
  /\ UNCHANGED <<inputVars, fs, now, faults, run, mainPc, result, remoteVars,
                 localVars, destFiles, filterVars, errMsgs, wg, appendOrder,
                 forwarded, ioLog, histVars, lagged>>

\* mutex.Lock(), and append reads the list
TaskLock(t) ==
  /\ tasks[t].pc = "lock"
  /\ mutex = 0
  /\ mutex' = t
  /\ tasks' = [tasks EXCEPT ![t].pc = "append", ![t].seen = errMsgs]
  /\ UNCHANGED <<inputVars, fs, now, faults, run, mainPc, result, remoteVars,
                 localVars, destFiles, filterVars, errMsgs, wg, appendOrder,
                 forwarded, ioLog, histVars, lagged>>

\* a goroutine that appends and keeps the lock
TaskAppendNoUnlock(t) ==
  /\ tasks[t].pc = "append"
  /\ errMsgs' = Append(tasks[t].seen, tasks[t].msg)
  /\ appendOrder' = Append(appendOrder, t)
  /\ tasks' = [tasks EXCEPT ![t].pc = "done"]
  /\ wg' = wg - 1
  /\ UNCHANGED <<inputVars, fs, now, faults, run, mainPc, result, remoteVars,
                 localVars, destFiles, filterVars, forwarded, ioLog, histVars,
                 lagged, mutex>>

\* append stores the longer list; mutex.Unlock(); the deferred wg.Done
TaskAppend(t) ==
  /\ tasks[t].pc = "append"
  /\ errMsgs' = Append(tasks[t].seen, tasks[t].msg)
  /\ appendOrder' = Append(appendOrder, t)
  /\ mutex' = 0
  /\ tasks' = [tasks EXCEPT ![t].pc = "done"]
  /\ wg' = wg - 1
  /\ UNCHANGED <<inputVars, fs, now, faults, run, mainPc, result, remoteVars,
                 localVars, destFiles, filterVars, forwarded, ioLog, histVars,
                 lagged>>

(***************************************************************************)
(* The end of syncS3ToLocal                                                *)
(***************************************************************************)
\* what syncS3ToLocal returns for the error list
SyncResult(msgs) ==
  IF Len(msgs) > 0 THEN Error(StringsJoin(msgs, Newline)) ELSE Nil

\* a syncS3ToLocal that does not wait for its goroutines
WaitReturnEarly ==
  /\ mainPc = "wait"
  /\ mainPc' = "returned"
  /\ result' = SyncResult(errMsgs)
  /\ UNCHANGED <<inputVars, fs, now, faults, run, remoteVars, localVars,
                 destFiles, filterVars, taskVars, forwarded, ioLog, histVars,
                 lagged>>

\* wg.Wait() returns, and syncS3ToLocal with it
WaitReturn ==
  /\ mainPc = "wait"
  /\ wg = 0
  /\ mainPc' = "returned"
  /\ result' = SyncResult(errMsgs)
  /\ UNCHANGED <<inputVars, fs, now, faults, run, remoteVars, localVars,
                 destFiles, filterVars, taskVars, forwarded, ioLog, histVars,
                 lagged>>

(***************************************************************************)
(* The caller calls Sync again with the same arguments.  A remote lister   *)
(* the call before left running keeps its own channel, which nothing of    *)
(* the new call reads: the model drops it.                                 *)
(***************************************************************************)
\* the names of the file records of non-zero size of which the fetch failed
\* in this call: at os.MkdirAll, at os.Create, or in the transfer with fewer
\* bytes in the file than the object has
FailedFetches ==
  { tasks[t].rec.name :
      t \in { u \in 1..Len(tasks) :
               /\ tasks[u].rec.err = NoErr
               /\ tasks[u].rec.size > 0
               /\ \/ tasks[u].msg = ErrMkdir(targetDir(tasks[u].rec))
                  \/ tasks[u].msg = ErrCreate(targetFilename(tasks[u].rec))
                  \/ /\ tasks[u].msg = ErrDownload(objectKey(tasks[u].rec))
                     /\ IsFile(fs, targetFilename(tasks[u].rec))
                     /\ fs[targetFilename(tasks[u].rec)].size < tasks[u].rec.size } }

CallAgain ==
  /\ mainPc = "returned"
  /\ run < MaxRuns
  /\ run' = run + 1
  /\ mainPc' = "call"
  /\ result' = NoResult
  /\ prevNil' = result.isNil
  /\ prevFetched' = (\E e \in ioLog : e.op = "download")
  /\ prevFailed' = FailedFetches
  /\ fs0' = fs
  /\ rPc' = "idle" /\ rToken' = 0 /\ rPending' = <<>> /\ rNext' = 0
  /\ rSent' = <<>> /\ rReqs' = <<>>
  /\ rChan' = <<>>
  /\ lPc' = "idle" /\ lTodo' = <<>> /\ lErr' = NoErr /\ lSent' = <<>>
  /\ destFiles' = <<>>
  /\ fPc' = "idle" /\ fErr' = NoErr /\ fRec' = ErrorInfo(NoErr)
  /\ judged' = <<>>
  /\ tasks' = <<>> /\ errMsgs' = <<>> /\ mutex' = 0 /\ wg' = 0
  /\ appendOrder' = <<>> /\ forwarded' = <<>> /\ ioLog' = {}
  /\ UNCHANGED <<inputVars, fs, now, faults, lagged>>

(***************************************************************************)
(* The specifications.                                                     *)
(***************************************************************************)
Init ==
  /\ source \in Addrs
  /\ dest \in Addrs
  /\ bucket \in Buckets
  /\ fs \in InitialFSs
  /\ now = 1
  /\ faults = 0
  /\ run = 1
  /\ mainPc = "call"
  /\ result = NoResult
  /\ rPc = "idle" /\ rToken = 0 /\ rPending = <<>> /\ rNext = 0 /\ rChan = <<>>
  /\ rSent = <<>> /\ rReqs = <<>>
  /\ lPc = "idle" /\ lTodo = <<>> /\ lErr = NoErr /\ lSent = <<>>
  /\ destFiles = <<>>
  /\ fPc = "idle" /\ fErr = NoErr /\ fRec = ErrorInfo(NoErr)
  /\ judged = <<>>
  /\ tasks = <<>> /\ errMsgs = <<>> /\ mutex = 0 /\ wg = 0
  /\ appendOrder = <<>> /\ forwarded = <<>> /\ ioLog = {}
  /\ fs0 = fs
  /\ prevNil = FALSE
  /\ prevFetched = FALSE
  /\ prevFailed = {}
  /\ lagged = FALSE

Lister ==
  \/ RemoteRequest \/ RemoteRequestFail \/ RemoteSend
  \/ LocalStat \/ LocalStatFail \/ LocalSendRoot \/ LocalWalkStep
  \/ LocalWalkFail \/ LocalSendErr

Filter == FilterAbort \/ FilterRecv \/ FilterSend \/ FilterClose

Task(t) ==
  \/ TaskStart(t) \/ TaskMkdirFail(t) \/ TaskCreate(t) \/ TaskCreateFail(t)
  \/ TaskTransfer(t) \/ TaskTransferFail(t)
  \/ TaskLock(t) \/ TaskAppend(t)

\* one call of Sync
NextOnce ==
  \/ SyncCall
  \/ Lister
  \/ Filter
  \/ \E t \in 1..Len(tasks) : Task(t)
  \/ WaitReturn

\* calls of Sync one after the other
NextAgain == NextOnce \/ CallAgain

\* one call of Sync, for any two addresses
Spec == Init /\ [][NextOnce]_vars

\* one call of Sync under fair scheduling: a goroutine that can take a step
\* takes one in the end, and every external call returns
RemoteLister == RemoteRequest \/ RemoteRequestFail \/ RemoteSend
LocalLister ==
  \/ LocalStat \/ LocalStatFail \/ LocalSendRoot \/ LocalWalkStep
  \/ LocalWalkFail \/ LocalSendErr
\* the states in which a goroutine has a step to take: those in which its
\* action is enabled
RemoteReady ==
  \/ rPc = "request"
  \/ rPc = "send" /\ Len(rChan) < RemoteChanCap
LocalReady ==
  \/ lPc = "stat"
  \/ lPc = "root" /\ mainPc = "drain"
  \/ lPc = "walk" /\ (CanFail \/ IsDir(fs, Clean(Head(lTodo))) \/ mainPc = "drain")
  \/ lPc = "senderr" /\ mainPc = "drain"
TaskReady(t) ==
  \/ tasks[t].pc \in {"start", "create", "transfer", "append"}
  \/ tasks[t].pc = "lock" /\ mutex = 0

\* weak fairness of each goroutine; for the listers and the tasks, and for
\* SyncCall, which has a step exactly when mainPc = "call", ENABLED is written
\* out as above
MainFair ==
  /\ ([]<>(mainPc # "call") \/ []<><<SyncCall>>_vars)
  /\ WF_vars(WaitReturn)
RemoteFair == []<>(~RemoteReady) \/ []<><<RemoteLister>>_vars
LocalFair == []<>(~LocalReady) \/ []<><<LocalLister>>_vars
FilterFair == WF_vars(Filter)
TaskFair ==
  \/ []<>(\A t \in 1..Len(tasks) : ~TaskReady(t))
  \/ []<><<\E t \in 1..Len(tasks) : Task(t)>>_vars
Fairness == MainFair /\ RemoteFair /\ LocalFair /\ FilterFair /\ TaskFair

\* calls of Sync one after the other, from the objects under a prefix to a
\* local path
InitS3ToLocal ==
  /\ Init
  /\ source = AddrS3P
  /\ dest = AddrLocal
  /\ \A o \in bucket : o.key \in KeysP
SpecAgain == InitS3ToLocal /\ [][NextAgain]_vars

\* one call from s3://b/p to /d on a bucket that also holds a key of which
\* the prefix is a leading part without a separator after it: ListObjectsV2
\* matches the prefix as a string
KeysShared == { <<"p", "/", "a">>, <<"p", "b">> }
BucketsShared == UNION { BucketsOf(K) : K \in SUBSET KeysShared }
InitShared ==
  /\ source = AddrS3P
  /\ dest = AddrLocal
  /\ bucket \in BucketsShared
  /\ fs \in InitialFSs
  /\ now = 1
  /\ faults = 0
  /\ run = 1
  /\ mainPc = "call"
  /\ result = NoResult
  /\ rPc = "idle" /\ rToken = 0 /\ rPending = <<>> /\ rNext = 0 /\ rChan = <<>>
  /\ rSent = <<>> /\ rReqs = <<>>
  /\ lPc = "idle" /\ lTodo = <<>> /\ lErr = NoErr /\ lSent = <<>>
  /\ destFiles = <<>>
  /\ fPc = "idle" /\ fErr = NoErr /\ fRec = ErrorInfo(NoErr)
  /\ judged = <<>>
  /\ tasks = <<>> /\ errMsgs = <<>> /\ mutex = 0 /\ wg = 0
  /\ appendOrder = <<>> /\ forwarded = <<>> /\ ioLog = {}
  /\ fs0 = fs
  /\ prevNil = FALSE
  /\ prevFetched = FALSE
  /\ prevFailed = {}
  /\ lagged = FALSE
SpecShared == InitShared /\ [][NextOnce]_vars

\* one call from the objects under a prefix to a directory, fairly scheduled
SpecFair == InitS3ToLocal /\ [][NextOnce]_vars /\ Fairness

(***************************************************************************)
(* filterFilesForSync on its own: the caller hands it two channels, each   *)
(* delivering a sequence of records of the caller's choice.  The remote    *)
(* one is the send loop of the remote lister with these records pending;   *)
(* the local one is drained by fileInfoChanToMap before the goroutine of   *)
(* the filter starts.  The reader of the output is the range loop.         *)
(***************************************************************************)
FeedNames == { <<"a">>, <<>> }
FeedFiles ==
  { FileInfo(n, n, sz, t) : n \in FeedNames, sz \in Sizes,
                            t \in Times \cup {ZeroTime} }
FeedRecords == FeedFiles \cup {ErrorInfo(ErrList)}

\* sequences of at most MaxFeed records
Feeds == UNION { [1..n -> FeedRecords] : n \in 0..MaxFeed }

\* what a lister may deliver: names are unique among its file records
ListerFeeds ==
  { f \in Feeds :
      \A i, j \in 1..Len(f) :
        (i # j /\ f[i].err = NoErr /\ f[j].err = NoErr)
          => f[i].name # f[j].name }

InitFilter ==
  /\ source = AddrS3P
  /\ dest = AddrLocal
  /\ bucket = {}
  /\ fs = EmptyFS
  /\ now = 1
  /\ faults = 0
  /\ run = 1
  /\ mainPc = "range"
  /\ result = NoResult
  /\ rPending \in ListerFeeds
  /\ rPc = (IF rPending = <<>> THEN "closed" ELSE "send")
  /\ rToken = 0 /\ rNext = 0 /\ rChan = <<>>
  /\ rSent = <<>> /\ rReqs = <<>>
  /\ \E destFileChan \in ListerFeeds :
       LET drained == fileInfoChanToMap(destFileChan, <<>>, <<>>)
       IN  /\ lSent = drained.read
           /\ destFiles = drained.map
           /\ fErr = drained.err
           /\ fPc = (IF drained.err # NoErr THEN "abort" ELSE "recv")
  /\ lPc = "closed" /\ lTodo = <<>> /\ lErr = NoErr
  /\ fRec = ErrorInfo(NoErr)
  /\ judged = <<>>
  /\ tasks = <<>> /\ errMsgs = <<>> /\ mutex = 0 /\ wg = 0
  /\ appendOrder = <<>> /\ forwarded = <<>> /\ ioLog = {}
  /\ fs0 = fs
  /\ prevNil = FALSE
  /\ prevFetched = FALSE
  /\ prevFailed = {}
  /\ lagged = FALSE

NextFilter == RemoteSend \/ Filter

SpecFilter == InitFilter /\ [][NextFilter]_vars

(***************************************************************************)
(* Properties of the diff filter.                                          *)
(***************************************************************************)
\* the local sequence held an error record
LocalFailed == \E i \in 1..Len(lSent) : lSent[i].err # NoErr

\* the records the filter has decided to send: those the range loop has
\* received, and the one the filter is sending
Decided == IF fPc = "send" THEN Append(forwarded, fRec) ELSE forwarded

\* (a) no local record has the name of r, (b) the sizes differ, (c) r is
\* strictly later than the local record of its name
Qualifies(r) ==
  \/ \A i \in 1..Len(lSent) : lSent[i].name # r.name
  \/ \E i \in 1..Len(lSent) :
       /\ lSent[i].name = r.name
       /\ \/ r.size # lSent[i].size
          \/ r.lastModified > lSent[i].lastModified

\* C1: when the local sequence holds no error record, the records the filter
\* sends on are, in order, exactly the remote records it received for which
\* (a), (b) or (c) holds; a record of equal size that is not later than the
\* local record of its name is not sent.
C1_ForwardsIffQualifies ==
  ~LocalFailed => Decided = SelectSeq(judged, Qualifies)

\* the filter is done, having sent a record on for (c) alone and having held
\* back a record of equal size and equal time
C1_Witness ==
  /\ fPc = "closed"
  /\ ~LocalFailed
  /\ \E i \in 1..Len(judged), k \in 1..Len(lSent) :
       /\ lSent[k].name = judged[i].name
       /\ lSent[k].size = judged[i].size
       /\ judged[i].lastModified > lSent[k].lastModified
       /\ judged[i] \in { forwarded[j] : j \in 1..Len(forwarded) }
  /\ \E i \in 1..Len(judged), k \in 1..Len(lSent) :
       /\ lSent[k].name = judged[i].name
       /\ lSent[k].size = judged[i].size
       /\ judged[i].lastModified = lSent[k].lastModified
       /\ judged[i] \notin { forwarded[j] : j \in 1..Len(forwarded) }

Returned == mainPc = "returned"
IsS3ToLocal == SyncDispatch(source, dest).kind = "s3ToLocal"

\* the objects under the prefix of the source address
RemoteObjects == { o \in bucket : HasPrefix(o.key, sourcePath.bucketPrefix) }

\* the name of a remote object: its key relative to the prefix
RemoteName(o) == Rel(sourcePath.bucketPrefix, o.key)

\* where the file of a name is under the destination root
LocalPath(name) == Join(dest, name)

\* the remote file o qualified when the call began: no local file of its
\* name, another size, or o strictly newer
QualifiedAtStart(o) ==
  LET q == LocalPath(RemoteName(o).path)
  IN  \/ ~IsFile(fs0, q)
      \/ fs0[q].size # o.size
      \/ o.lastModified > fs0[q].mtime

\* the calls of a kind in a log
Ops(log, kinds) == { e \in log : e.op \in kinds }
FetchOps == {"mkdir", "create", "download"}

\* C2: when a call from a bucket to a local path returns nil, every remote
\* file that qualified when the call began is a file under the destination
\* root at its name, of the size of the remote file.
C2_QualifiedPresent ==
  (Returned /\ result.isNil) =>
    \A o \in RemoteObjects :
      (~RemoteName(o).err /\ QualifiedAtStart(o))
        => /\ IsFile(fs, LocalPath(RemoteName(o).path))
           /\ fs[LocalPath(RemoteName(o).path)].size = o.size

\* a call returned nil after it replaced a local file of another size by the
\* remote file of its name and left a file in sync alone
C2_Witness ==
  /\ Returned /\ result.isNil /\ IsS3ToLocal
  /\ \E o \in RemoteObjects :
       /\ ~RemoteName(o).err
       /\ IsFile(fs0, LocalPath(RemoteName(o).path))
       /\ fs0[LocalPath(RemoteName(o).path)].size # o.size
       /\ fs[LocalPath(RemoteName(o).path)].size = o.size
  /\ \E o \in RemoteObjects :
       /\ ~RemoteName(o).err
       /\ ~QualifiedAtStart(o)
       /\ fs[LocalPath(RemoteName(o).path)] = fs0[LocalPath(RemoteName(o).path)]

\* the tasks of the current call
TaskIds == 1..Len(tasks)
Log(op, arg) == [op |-> op, arg |-> arg]

\* C4: when a call from a bucket to a local path returns, every record the
\* filter sent on has had one task of its own; the task of a file record has
\* either downloaded the object of the record into the file of its name, or
\* failed in making its own directory, creating its own file or downloading
\* its own object, whatever became of the other tasks.
C4_FailureIsolation ==
  (Returned /\ IsS3ToLocal) =>
    /\ Len(tasks) = Len(forwarded)
    /\ \A i \in TaskIds :
         /\ tasks[i].rec = forwarded[i]
         /\ tasks[i].pc = "done"
         /\ (forwarded[i].err = NoErr /\ tasks[i].msg = NoErr)
              => /\ Log("download", objectKey(forwarded[i])) \in ioLog
                 /\ IsFile(fs, targetFilename(forwarded[i]))
                 /\ fs[targetFilename(forwarded[i])].size = forwarded[i].size
         /\ (forwarded[i].err = NoErr /\ tasks[i].msg # NoErr)
              => tasks[i].msg \in { ErrMkdir(targetDir(forwarded[i])),
                                    ErrCreate(targetFilename(forwarded[i])),
                                    ErrDownload(objectKey(forwarded[i])) }

\* a call returned after the task of one file record failed and the task of
\* another downloaded its object
C4_Witness ==
  /\ Returned /\ IsS3ToLocal
  /\ \E i, j \in TaskIds :
       /\ forwarded[i].err = NoErr /\ tasks[i].msg # NoErr
       /\ forwarded[j].err = NoErr /\ tasks[j].msg = NoErr
       /\ Log("download", objectKey(forwarded[j])) \in ioLog

\* the message a record the filter sent on adds to the error: its own error,
\* or that of its failed task; none when the task succeeded
MessageOf(i) ==
  IF forwarded[i].err # NoErr THEN forwarded[i].err ELSE tasks[i].msg
Failed == { i \in TaskIds : MessageOf(i) # NoErr }

\* C5: a call from a bucket to a local path returns nil exactly when the
\* filter sent no error record on and no task failed; else the error it
\* returns is, split at its newlines, one message for each error record sent
\* on and each failed task, in the order the tasks appended them, none lost
\* and none twice.
C5_CombinedError ==
  (Returned /\ IsS3ToLocal) =>
    /\ result.isNil <=> Failed = {}
    /\ ~result.isNil =>
         /\ Len(appendOrder) = Cardinality(Failed)
         /\ { appendOrder[k] : k \in 1..Len(appendOrder) } = Failed
         /\ Split(result.msg, "\n")
              = [k \in 1..Len(appendOrder) |-> MessageOf(appendOrder[k])]

\* a call returned the messages of an error record and of a failed task
C5_Witness ==
  /\ Returned /\ IsS3ToLocal
  /\ \E i, j \in Failed : forwarded[i].err # NoErr /\ forwarded[j].err = NoErr
  /\ Len(Split(result.msg, "\n")) = 2

\* C6: no call in which a page request of the remote lister failed returns
\* nil, whatever it downloaded from the pages before.
C6_ListFailureIsAnError ==
  (Returned /\ Ops(ioLog, {"listfail"}) # {}) => ~result.isNil

\* a call returned after it downloaded the file of a first page and the
\* request of the next page failed
C6_Witness ==
  /\ Returned
  /\ Ops(ioLog, {"listfail"}) # {}
  /\ \E i \in TaskIds :
       /\ forwarded[i].err = NoErr /\ tasks[i].msg = NoErr
       /\ Log("download", objectKey(forwarded[i])) \in ioLog

\* C7: once the local sequence has delivered an error record, the filter
\* judges no remote record and sends on nothing but that one error record,
\* which it has sent when it closes its output; no directory is made, no file
\* created and nothing downloaded in the call, which returns the message of
\* the record as its error.
C7_LocalErrorAborts ==
  LocalFailed =>
    /\ judged = <<>>
    /\ Decided \in { <<>>, <<lSent[Len(lSent)]>> }
    /\ fPc = "closed" => forwarded = <<lSent[Len(lSent)]>>
    /\ Ops(ioLog, FetchOps) = {}
    /\ Returned => result = Error(lSent[Len(lSent)].err)

\* the walk of the local tree failed after a file record, with remote files
\* to judge, and the call returned
C7_Witness ==
  /\ Returned
  /\ LocalFailed
  /\ Len(lSent) >= 2
  /\ RemoteObjects # {}

(***************************************************************************)
(* Properties of the addresses Sync refuses.                               *)
(***************************************************************************)
Parses(addr) == ~urlParse(addr).err
HasS3Scheme(addr) == urlParse(addr).Scheme = <<"s", "3">>
\* a remote address: scheme s3 and a bucket
IsRemote(addr) == Parses(addr) /\ HasS3Scheme(addr) /\ urlParse(addr).Host # <<>>
\* a remote address without a bucket
LacksBucket(addr) ==
  Parses(addr) /\ HasS3Scheme(addr) /\ urlParse(addr).Host = <<>>
\* a local address: any other scheme
IsLocal(addr) == Parses(addr) /\ ~HasS3Scheme(addr)

\* nothing of the pipeline has started and no external call was made
NothingStarted ==
  /\ mainPc \in {"call", "returned"}
  /\ rPc = "idle" /\ lPc = "idle" /\ fPc = "idle"
  /\ tasks = <<>>
  /\ ioLog = {}

\* C9: a call with two remote addresses or two local addresses makes no
\* external call and starts nothing, and returns the fixed error of its case.
C9_UnsupportedPairs ==
  /\ (IsRemote(source) /\ IsRemote(dest)) =>
       /\ NothingStarted
       /\ Returned => result = Error(ErrS3ToS3)
  /\ (IsLocal(source) /\ IsLocal(dest)) =>
       /\ NothingStarted
       /\ Returned => result = Error(ErrLocalToLocal)

\* a call with two different remote addresses returned
C9_Witness ==
  /\ Returned
  /\ IsRemote(source) /\ IsRemote(dest)
  /\ source # dest

\* C10: a call with an address that does not parse or a remote address
\* without a bucket, or from a local to a remote address, never starts a
\* lister or a task and makes no external call, and what it returns is an
\* error.
C10_RefusedBeforeEnumeration ==
  (\/ ~Parses(source) \/ ~Parses(dest)
   \/ LacksBucket(source) \/ LacksBucket(dest)
   \/ (IsLocal(source) /\ IsRemote(dest))) =>
    /\ NothingStarted
    /\ Returned => ~result.isNil

\* a call from a remote address to a destination that does not parse returned
C10_Witness ==
  /\ Returned
  /\ IsRemote(source)
  /\ ~Parses(dest)

(***************************************************************************)
(* Further properties of one call of Sync from a bucket to a local path.   *)
(***************************************************************************)
\* the remote files: the objects under the prefix that have a name
NamedObjects == { o \in RemoteObjects : ~RemoteName(o).err }

\* the records sent on so far
Forwarded == { forwarded[i] : i \in 1..Len(forwarded) }

\* C11: when the destination root does not exist as the call begins, and
\* os.Stat does not fail for another reason, the local lister sends no
\* record and no error record; the filter sends on
\* every remote record it receives; once the remote listing is through
\* without a failed request, the record of every remote file has been sent
\* on, and a call that returns nil leaves every remote file under the
\* destination root with its size.
C11_MissingRootIsEmptyTree ==
  (IsS3ToLocal /\ ~Exists(fs0, Clean(dest))
     /\ Ops(ioLog, {"statfail"}) = {}) =>
    /\ lSent = <<>>
    /\ lErr = NoErr
    /\ Decided = judged
    /\ (fPc = "closed" /\ Ops(ioLog, {"listfail"}) = {}) =>
         \A o \in NamedObjects :
           \E r \in Forwarded :
             /\ r.err = NoErr
             /\ r.name = RemoteName(o).path
             /\ r.size = o.size
    /\ (Returned /\ result.isNil) =>
         \A o \in NamedObjects :
           /\ IsFile(fs, LocalPath(RemoteName(o).path))
           /\ fs[LocalPath(RemoteName(o).path)].size = o.size

\* a call to a destination that did not exist returned nil with the two
\* remote files fetched
C11_Witness ==
  /\ IsS3ToLocal /\ ~Exists(fs0, Clean(dest))
  /\ Returned /\ result.isNil
  /\ Cardinality(NamedObjects) = 2
  /\ \A o \in NamedObjects : IsFile(fs, LocalPath(RemoteName(o).path))

\* C12: when a call from a bucket to a local path has returned, the filter
\* has closed its output, every record it sent on has a goroutine that is
\* through, the wait group is at zero, nobody holds the lock, and the message
\* of every error record and failed task is in the list the result was made
\* of.
C12_CompletionBarrier ==
  (Returned /\ IsS3ToLocal) =>
    /\ fPc = "closed"
    /\ Len(tasks) = Len(forwarded)
    /\ \A i \in TaskIds : tasks[i].pc = "done"
    /\ wg = 0
    /\ mutex = 0
    /\ result.isNil <=> errMsgs = <<>>
    /\ \A i \in Failed : \E k \in 1..Len(errMsgs) : errMsgs[k] = MessageOf(i)

\* a call returned after two goroutines, one of which appended a message
C12_Witness ==
  /\ Returned /\ IsS3ToLocal
  /\ Len(tasks) = 2
  /\ Len(errMsgs) = 1

\* the files the goroutines of file records are to write
Targets ==
  { targetFilename(forwarded[i]) :
      i \in { j \in 1..Len(forwarded) : forwarded[j].err = NoErr } }

\* the external calls the download of a file record makes
FetchCalls(rec) ==
  { Log("mkdir", targetDir(rec)), Log("create", targetFilename(rec)),
    Log("download", objectKey(rec)) }

\* C13: in a call from a bucket to a local path no path of the local tree
\* is removed, and a file differs from what it was when the call began, or
\* is new, only at the target of a file record the filter sent on; new
\* directories lie above such targets; every mkdir, create and download is
\* that of a file record sent on, none that of an error record; the local
\* file of a remote file that did not qualify is as it was.
C13_Frame ==
  IsS3ToLocal =>
    LET targets == Targets
        calls == UNION { FetchCalls(r) : r \in { x \in Forwarded : x.err = NoErr } }
        above == UNION { Ancestors(Dir(t)) : t \in targets }
    IN  /\ \A q \in DOMAIN fs0 :
             /\ q \in DOMAIN fs
             /\ fs[q] # fs0[q] => q \in targets
        /\ \A q \in DOMAIN fs \ DOMAIN fs0 :
             IF fs[q].kind = "file" THEN q \in targets ELSE q \in above
        /\ Ops(ioLog, FetchOps) \subseteq calls
        /\ fs # fs0 =>
             \A o \in NamedObjects :
               ~QualifiedAtStart(o) =>
                 fs[LocalPath(RemoteName(o).path)]
                   = fs0[LocalPath(RemoteName(o).path)]

\* a call returned after it sent on an error record, rewrote one local file
\* and left another as it was
C13_Witness ==
  /\ Returned /\ IsS3ToLocal
  /\ \E r \in Forwarded : r.err # NoErr
  /\ \E q \in DOMAIN fs0 : fs0[q].kind = "file" /\ fs[q] # fs0[q]
  /\ \E q \in DOMAIN fs0 :
       fs0[q].kind = "file" /\ q \notin Targets /\ fs[q] = fs0[q]

(***************************************************************************)
(* Properties of the remote lister within a call.                          *)
(***************************************************************************)
\* the records of the objects under the prefix, in listing order
AllRemote ==
  LET objs == Listing(sourcePath.bucketPrefix)
  IN  [i \in 1..Len(objs) |-> RemoteInfo(sourcePath.bucketPrefix, objs[i])]

\* the last page request failed
LastRequestFailed == rReqs # <<>> /\ rReqs[Len(rReqs)].failed

\* what the lister is to send for the requests it made, all being the
\* records of the objects under the prefix: the records of the pages it got,
\* then one error record if its last request failed
ToSend(all) ==
  LET got == Cardinality({ k \in 1..Len(rReqs) : ~rReqs[k].failed })
  IN  SubSeq(all, 1, Min(got * PageSize, Len(all)))
        \o (IF LastRequestFailed THEN <<ErrorInfo(ErrList)>> ELSE <<>>)

\* C14: before its first request the remote lister has sent nothing and its
\* channel is open.  It requests the pages one after the other, each with
\* the token the page before returned, and another one only after a page that
\* did not fail and returned a token; what it sends is, in order, the records
\* of the pages it got and then, if its last request failed, one error
\* record; it closes its channel only after a failed request or a page
\* without a token, with all of that sent.
C14_Pagination ==
  IF rReqs = <<>> THEN rSent = <<>> /\ rPc # "closed"
  ELSE
    LET all == AllRemote
        toSend == ToSend(all)
    IN  /\ \A k \in 1..Len(rReqs) : rReqs[k].token = (k - 1) * PageSize
        /\ \A k \in 1..(Len(rReqs) - 1) :
             ~rReqs[k].failed /\ k * PageSize < Len(all)
        /\ Len(rSent) <= Len(toSend)
        /\ rSent = SubSeq(toSend, 1, Len(rSent))
        /\ rPc = "closed" =>
             /\ LastRequestFailed \/ Len(rReqs) * PageSize >= Len(all)
             /\ rSent = toSend

\* the lister sent the record of a first page and the error of the failed
\* request of the second, and closed its channel
C14_Witness ==
  /\ IsS3ToLocal
  /\ rPc = "closed"
  /\ Len(rReqs) = 2 /\ rReqs[2].failed
  /\ Len(rSent) = 2
  /\ rSent[1].err = NoErr /\ rSent[2].err = ErrList

C16_LocalSequenceShape ==
  /\ \A i \in 1..Len(lSent) :
       /\ lSent[i].err = NoErr =>
            /\ IsFile(fs0, Clean(lSent[i].path))
            /\ lSent[i].size = fs0[Clean(lSent[i].path)].size
            /\ lSent[i].lastModified = fs0[Clean(lSent[i].path)].mtime
       /\ lSent[i].err # NoErr => (i = Len(lSent) /\ lPc = "closed")
  /\ (IsS3ToLocal /\ IsFile(fs0, Clean(dest))) =>
       /\ Len(lSent) <= 1
       /\ lPc = "closed" => Len(lSent) = 1
       /\ (lPc = "closed" /\ ~LocalFailed) =>
            Clean(lSent[1].path) = Clean(dest)

\* the lister sent the record of a file and then an error record
C16_Witness ==
  /\ lPc = "closed"
  /\ Len(lSent) = 2
  /\ lSent[1].err = NoErr
  /\ lSent[2].err # NoErr

(***************************************************************************)
(* Termination of a call.                                                  *)
(***************************************************************************)
\* C17: under fair scheduling, with every external call returning, every
\* call of Sync returns in the end.
C17_SyncReturns == <>Returned

\* a call returned although the remote lister had to wait for room in its
\* channel and a task failed
C17_Witness ==
  /\ Returned /\ IsS3ToLocal
  /\ Len(rSent) > RemoteChanCap
  /\ Failed # {}

\* C18: once Sync has returned, the remote lister, the local lister and the
\* filter have ended, or end later under fair scheduling, each with its
\* channel closed; a remote lister whose channel is full is not left waiting
\* for room for ever.
C18_ProducersEnd ==
  Returned ~> (rPc = "closed" /\ lPc = "closed" /\ fPc = "closed")

(***************************************************************************)
(* Where a call writes.                                                    *)
(***************************************************************************)
\* path is the destination root or lies below it
UnderRoot(path) ==
  \/ path = Clean(dest)
  \/ HasPrefix(path, IF Clean(dest) = Slash THEN Slash ELSE Clean(dest) \o Slash)

\* C19: for every object listed under the prefix, also one whose key only
\* starts with the prefix as a string, the name relative to the prefix does
\* not lead out of the tree, and the path a fetch creates and writes, the
\* destination root joined with the name, is the root or lies below it.
C19_WritesUnderRoot ==
  IsS3ToLocal =>
    /\ \A i \in 1..Len(rSent) :
         rSent[i].err = NoErr => ~HasPrefix(rSent[i].name, DotDot)
    /\ \A e \in Ops(ioLog, {"create"}) : UnderRoot(e.arg)
    /\ \A q \in DOMAIN fs : (q \notin DOMAIN fs0 \/ fs[q] # fs0[q]) => UnderRoot(q)

C20_FailedFetchSentAgain ==
  (run = 2 /\ fPc = "closed") =>
    \A n \in prevFailed :
      \E i \in 1..Len(forwarded) :
        forwarded[i].err = NoErr /\ forwarded[i].name = n

\* C20: when the fetch of a file of non-zero size that the filter sent on
\* failed in the first call, at making the directory, at creating the file or
\* in the transfer with fewer bytes written than the object has, then in the
\* second call, the remote tree unchanged, the filter sends the record of the
\* file on whenever it receives it; with both enumerations of the second call
\* free of failure the record is among those sent on when the filter closes.
C20_FailedFetchQualifiesAgain ==
  run = 2 =>
    /\ \A j \in 1..Len(judged) :
         (judged[j].err = NoErr /\ judged[j].name \in prevFailed) =>
           \E i \in 1..Len(Decided) : Decided[i] = judged[j]
    /\ (fPc = "closed" /\ ~LocalFailed /\ Ops(ioLog, {"listfail"}) = {}) =>
         \A n \in prevFailed :
           \E i \in 1..Len(forwarded) :
             forwarded[i].err = NoErr /\ forwarded[i].name = n

\* the first call reached a transfer and one of its fetches failed; the
\* second call has sent the record of every such file on
C20_Witness ==
  /\ run = 2 /\ fPc = "closed"
  /\ prevFetched
  /\ prevFailed # {}
  /\ \A n \in prevFailed :
       \E i \in 1..Len(forwarded) :
         forwarded[i].err = NoErr /\ forwarded[i].name = n
====
